---- MODULE Spec2Model ----
(***************************************************************************)
(* Model of Pytero's RequestManager (src/Pytero/requests.py): header       *)
(* construction, query-string validation, the request/response state      *)
(* machine of _make and the event slots it emits through.                  *)
(*                                                                         *)
(* One coroutine of _make is a task; its position is pc[c] and every       *)
(* action below is the code between two suspension points (awaits).        *)
(* The HTTP server, the JSON body and the wall clock are the environment.  *)
(* EventManager (Pytero/events.py) is not part of the sources at hand; its *)
(* two operations are modelled from the specification, section 4.1.        *)
(***************************************************************************)
EXTENDS Integers, Sequences, FiniteSets, TLC

VARIABLES
    _type,      \* RequestManager._type ("None" when unset)
    domain,     \* RequestManager.domain
    auth,       \* RequestManager.auth ("None" when unset)
    suspended,  \* RequestManager.suspended
    ping,       \* RequestManager.ping
    slots,      \* EventManager slots: event name -> sequence of callbacks
    now,        \* the last value read from the wall clock, time()
    pc,         \* task -> position of its _make coroutine
    call,       \* task -> locals of _make (method, path, params, body, ...)
    session,    \* task -> state of the ClientSession the call created
    opened,     \* task -> number of ClientSession() constructions of the call
    requests,   \* task -> HTTP requests the call issued, in order
    log,        \* task -> events emitted by the call, in order
    outcome,    \* task -> what the call returned or raised
    entry,      \* task -> the public operation that started the call
    lastEmit,   \* the emit_event of the step just taken: callbacks invoked
    returned,   \* event name -> what the on_<event> calls returned, in order
    vq          \* harness of _validate_query: input options and result

vars == <<_type, domain, auth, suspended, ping, slots, now, pc, call, session,
          opened, requests, log, outcome, entry, lastEmit, returned, vq>>

(***************************************************************************)
(* Bounds of the model.                                                    *)
(***************************************************************************)
MaxTime == 1    \* the wall clock reads 0..MaxTime
MaxSubs == 2    \* at most this many on_receive/on_debug registrations

(***************************************************************************)
(* Program constants.                                                      *)
(***************************************************************************)
PageMax == 50
PerPageMax == 100

Tasks == {"t1", "t2"}
MainTasks == {"t1"}

None == "None"

\* The accepted methods with 'PUT' left out of the tuple.
MethodsWithoutPut == {"GET", "POST", "PATCH", "DELETE"}

\* Line 63: the methods _make accepts.
Methods == {"GET", "POST", "PATCH", "PUT", "DELETE"}
QueryKeys == {"page", "per_page", "filter", "include", "sort"}
Events == {"receive", "debug"}

\* Subscriber callbacks: one that returns, one that throws when invoked.
Callbacks == {"cb_ok", "cb_throws"}
Throws(cb) == cb = "cb_throws"

(***************************************************************************)
(* Values.                                                                 *)
(***************************************************************************)
NoneVal == [t |-> "None"]
NoBody == [kind |-> "none"]
Pending == [kind |-> "pending"]
Return(v) == [kind |-> "return", value |-> v]
Raise(e, a) == [kind |-> "raise", exc |-> e, args |-> a]

Has(d, k) == k \in DOMAIN d
Without(d, ks) == [k \in DOMAIN d \ ks |-> d[k]]

RECURSIVE Join(_, _)
Join(sep, s) ==
    IF s = <<>> THEN ""
    ELSE IF Len(s) = 1 THEN s[1]
    ELSE s[1] \o sep \o Join(sep, Tail(s))

\* str.lower() on the API family names the library uses.
Lower(s) ==
    CASE s = "Application" -> "application"
      [] s = "Client" -> "client"
      [] s = "GET" -> "get"
      [] s = "POST" -> "post"
      [] s = "PATCH" -> "patch"
      [] s = "PUT" -> "put"
      [] s = "DELETE" -> "delete"
      [] OTHER -> s

(***************************************************************************)
(* get_headers                                                             *)
(***************************************************************************)
get_headers ==
    IF _type = None
    THEN Raise("TypeError", <<"api type is required for requests">>)
    ELSE IF auth = None
    THEN Raise("TypeError", <<"missing authorization for requests">>)
    ELSE Return([UserAgent |-> _type \o " Pytero v0.1.0",
                 ContentType |-> "application/json",
                 Accept |-> "application/json",
                 Authorization |-> "Bearer " \o auth])

(***************************************************************************)
(* _validate_query: res is the list of clauses, str the returned string.   *)
(***************************************************************************)
\* `if p := query.get(k)` on an integer option: present and non-zero.
TruthyInt(q, k) == Has(q, k) /\ q[k] # 0
TruthyStr(q, k) == Has(q, k) /\ q[k] # ""
TruthySeq(q, k) == Has(q, k) /\ q[k] # <<>>

\* `1 < p > 50` is Python's chained comparison: 1 < p and p > 50.
PageRejected(p) == 1 < p /\ p > PageMax
PerPageRejected(p) == 1 < p /\ p > PerPageMax

PageClause(q) ==
    IF TruthyInt(q, "page") THEN <<"page=" \o ToString(q["page"])>> ELSE <<>>
PerPageClause(q) ==
    IF TruthyInt(q, "per_page")
    THEN <<"per_page=" \o ToString(q["per_page"])>> ELSE <<>>
FilterClause(q) ==
    IF TruthySeq(q, "filter")
    THEN <<"filter[" \o q["filter"][1] \o "]=" \o q["filter"][2]>> ELSE <<>>
IncludeClause(q) ==
    IF TruthySeq(q, "include")
    THEN LET p == SelectSeq(q["include"], LAMBDA i : i # "")
         IN IF Len(p) > 0 THEN <<"include=" \o Join(",", p)>> ELSE <<>>
    ELSE <<>>
SortClause(q) ==
    IF TruthyStr(q, "sort") THEN <<"sort=" \o q["sort"]>> ELSE <<>>

\* The clauses appended in the order sort, include, filter, per_page, page.
ClausesReversed(q) ==
    SortClause(q) \o IncludeClause(q) \o FilterClause(q) \o PerPageClause(q)
        \o PageClause(q)

\* Lines 33-53: res after the five `if` blocks, each appending its clause.
Clauses(q) ==
    PageClause(q) \o PerPageClause(q) \o FilterClause(q) \o IncludeClause(q)
        \o SortClause(q)

_validate_query(q) ==
    IF TruthyInt(q, "page") /\ PageRejected(q["page"])
    THEN Raise("ValidationError", <<"page number must be between 1 and 50">>)
    ELSE IF TruthyInt(q, "per_page") /\ PerPageRejected(q["per_page"])
    THEN Raise("ValidationError",
               <<"per_page number must be between 1 and 100">>)
    ELSE LET res == Clauses(q)
         IN [kind |-> "return",
             res |-> res,
             value |-> IF Len(res) = 0 THEN ""
                       ELSE "?" \o res[1]
                            \o (IF Len(res) > 1
                                THEN "&" \o Join("&", Tail(res)) ELSE "")]

(***************************************************************************)
(* EventManager (Pytero/events.py), from the specification, section 4.1:   *)
(* add_event_slot appends the callback to the event's ordered list;        *)
(* emit_event invokes every registered callback in registration order and  *)
(* contains a callback's failure, which neither stops the later callbacks  *)
(* nor reaches the emitter.                                                *)
(***************************************************************************)
add_event_slot(name, func) == [slots EXCEPT ![name] = Append(@, func)]

Invocation(cb, payload) == [cb |-> cb, arg |-> payload, threw |-> Throws(cb)]

\* emit_event giving up at the first callback that throws.
emit_event_aborting(name, payload) ==
    LET subs == slots[name]
        failing == {i \in 1..Len(subs) : Throws(subs[i])}
        last == IF failing = {} THEN Len(subs)
                ELSE CHOOSE i \in failing : \A j \in failing : i <= j
    IN [ev |-> name,
        payload |-> payload,
        subscribed |-> subs,
        invoked |-> [i \in 1..last |-> Invocation(subs[i], payload)],
        raised |-> FALSE]

emit_event(name, payload) ==
    [ev |-> name,
     payload |-> payload,
     subscribed |-> slots[name],
     invoked |-> [i \in 1..Len(slots[name]) |->
                     Invocation(slots[name][i], payload)],
     raised |-> FALSE]

\* No emit_event took place in the step just taken.
NoEmit ==
    [ev |-> "", payload |-> "", subscribed |-> <<>>, invoked |-> <<>>,
     raised |-> FALSE]

AnyThrew(e) == \E i \in 1..Len(e.invoked) : e.invoked[i].threw

(***************************************************************************)
(* RequestManager.__debug: emit_event('debug', ...) inside try/except.     *)
(***************************************************************************)
__debug(message) ==
    [emit_event("debug", "[debug] " \o message) EXCEPT !.raised = FALSE]

\* The 'receive' emission without try/except: a callback's failure leaves it.
EmitReceiveUnguarded(data) ==
    LET e == emit_event("receive", data) IN [e EXCEPT !.raised = AnyThrew(e)]

\* _make, lines 103-106: emit_event('receive', data) inside try/except.
EmitReceive(data) ==
    [emit_event("receive", data) EXCEPT !.raised = FALSE]

\* An exception that left an emission (no code path produces one).
CallbackFailure == Raise("CallbackError", <<>>)

(***************************************************************************)
(* on_receive / on_debug                                                   *)
(***************************************************************************)
NumSubs == Len(slots["receive"]) + Len(slots["debug"])

\* Lines 139-144: `self.add_event_slot('receive', func)`, `return func`.
on_receive(func) ==
    /\ NumSubs < MaxSubs
    /\ slots' = add_event_slot("receive", func)
    /\ returned' = [returned EXCEPT !["receive"] = Append(@, func)]
    /\ lastEmit' = NoEmit
    /\ UNCHANGED <<_type, domain, auth, suspended, ping, now, pc, call,
                   session, opened, requests, log, outcome, entry, vq>>

\* on_debug registering its callback under 'receive'.
on_debug_under_receive(func) ==
    /\ NumSubs < MaxSubs
    /\ slots' = add_event_slot("receive", func)
    /\ returned' = [returned EXCEPT !["debug"] = Append(@, func)]
    /\ lastEmit' = NoEmit
    /\ UNCHANGED <<_type, domain, auth, suspended, ping, now, pc, call,
                   session, opened, requests, log, outcome, entry, vq>>

\* Lines 146-148: `self.add_event_slot('debug', func)`, `return func`.
on_debug(func) ==
    /\ NumSubs < MaxSubs
    /\ slots' = add_event_slot("debug", func)
    /\ returned' = [returned EXCEPT !["debug"] = Append(@, func)]
    /\ lastEmit' = NoEmit
    /\ UNCHANGED <<_type, domain, auth, suspended, ping, now, pc, call,
                   session, opened, requests, log, outcome, entry, vq>>

(***************************************************************************)
(* Inputs of the calls and answers of the environment.                     *)
(***************************************************************************)
Paths == {"/users"}
EmptyParams == [k \in {} |-> 0]
QueryInputs ==
    { EmptyParams,
      [page |-> 2, sort |-> "-name"],
      [page |-> 51],
      [page |-> -1] }
BodyInputs ==
    { [raw |-> "bytes"],
      [name |-> "srv", per_page |-> 100],
      [name |-> "srv", per_page |-> 101] }
PatchInputs == { [name |-> "srv", per_page |-> 100] }
PutInputs == { [raw |-> ""] }
MethodInputs == {"HEAD", "get", "GET"}


\* JSON bodies as response.json() decodes them; Undecodable is a body it
\* fails on.
Undecodable == [t |-> "text"]
JsonBodies ==
    { [t |-> "obj", id |-> 1],
      [t |-> "obj", errors |-> <<[code |-> "NotFound"]>>],
      [t |-> "obj", errors |-> <<[code |-> "First"], [code |-> "Second"]>>],
      [t |-> "obj", errors |-> <<>>],
      [t |-> "obj", errors |-> <<[detail |-> "no code"]>>] }
Bodies == JsonBodies \cup {Undecodable}

\* The responses the server may send: a status and the body that follows it.
DataBody == [t |-> "obj", id |-> 1]
NotFoundBody == [t |-> "obj", errors |-> <<[code |-> "NotFound"]>>]
Response(st, b) == [status |-> st, content |-> b]
Responses ==
    { Response(200, b) : b \in {DataBody, NotFoundBody, Undecodable} }
    \cup { Response(201, b) : b \in {DataBody, Undecodable} }
    \cup { Response(204, Undecodable) }
    \cup { Response(400, b) : b \in Bodies }
    \cup { Response(404, NotFoundBody) }
    \cup { Response(499, b) : b \in {NotFoundBody, Undecodable} }
    \cup { Response(st, NotFoundBody) : st \in {100, 202, 399, 500, 503} }

\* json.dumps of the remaining keyword arguments: integers for page and
\* per_page, lists of strings for filter and include, strings otherwise.
BodyKeyOrder ==
    <<"name", "raw", "page", "per_page", "filter", "include", "sort">>
Quoted(s) == "\"" \o s \o "\""
DumpsValue(k, v) ==
    CASE k \in {"page", "per_page"} -> ToString(v)
      [] k \in {"filter", "include"} ->
             "[" \o Join(", ", [i \in 1..Len(v) |-> Quoted(v[i])]) \o "]"
      [] OTHER -> Quoted(v)
Dumps(copy) ==
    LET ks == SelectSeq(BodyKeyOrder, LAMBDA k : Has(copy, k))
        item(k) == Quoted(k) \o ": " \o DumpsValue(k, copy[k])
    IN "{" \o Join(", ", [i \in 1..Len(ks) |-> item(ks[i])]) \o "}"

(***************************************************************************)
(* _make.  Commit writes what one step of task c changes: the event it     *)
(* emitted (es holds it, or nothing) and the new values n of the task's    *)
(* position, outcome, locals and session, of ping and of the clock.        *)
(***************************************************************************)
LogOf(es) == [i \in 1..Len(es) |-> [ev |-> es[i].ev, payload |-> es[i].payload]]

Same(c) ==
    [pc |-> pc[c], outcome |-> outcome[c], call |-> call[c],
     session |-> session[c], opened |-> opened[c], requests |-> requests[c],
     ping |-> ping, now |-> now]

\* Commit marking the dispatcher suspended when the call raises.
CommitSuspending(c, es, n) ==
    /\ pc' = [pc EXCEPT ![c] = n.pc]
    /\ outcome' = [outcome EXCEPT ![c] = n.outcome]
    /\ call' = [call EXCEPT ![c] = n.call]
    /\ session' = [session EXCEPT ![c] = n.session]
    /\ opened' = [opened EXCEPT ![c] = n.opened]
    /\ requests' = [requests EXCEPT ![c] = n.requests]
    /\ ping' = n.ping
    /\ now' = n.now
    /\ log' = [log EXCEPT ![c] = @ \o LogOf(es)]
    /\ lastEmit' = IF es = <<>> THEN NoEmit ELSE es[Len(es)]
    /\ suspended' = (suspended \/ n.outcome.kind = "raise")
    /\ UNCHANGED <<_type, domain, auth, slots, entry, returned, vq>>

\* Commit with the locals of _make kept in one place for all calls.
CommitSharedLocals(c, es, n) ==
    /\ pc' = [pc EXCEPT ![c] = n.pc]
    /\ outcome' = [outcome EXCEPT ![c] = n.outcome]
    /\ call' = [d \in Tasks |-> n.call]
    /\ session' = [session EXCEPT ![c] = n.session]
    /\ opened' = [opened EXCEPT ![c] = n.opened]
    /\ requests' = [requests EXCEPT ![c] = n.requests]
    /\ ping' = n.ping
    /\ now' = n.now
    /\ log' = [log EXCEPT ![c] = @ \o LogOf(es)]
    /\ lastEmit' = IF es = <<>> THEN NoEmit ELSE es[Len(es)]
    /\ UNCHANGED <<_type, domain, auth, suspended, slots, entry, returned,
                   vq>>

Commit(c, es, n) ==
    /\ pc' = [pc EXCEPT ![c] = n.pc]
    /\ outcome' = [outcome EXCEPT ![c] = n.outcome]
    /\ call' = [call EXCEPT ![c] = n.call]
    /\ session' = [session EXCEPT ![c] = n.session]
    /\ opened' = [opened EXCEPT ![c] = n.opened]
    /\ requests' = [requests EXCEPT ![c] = n.requests]
    /\ ping' = n.ping
    /\ now' = n.now
    /\ log' = [log EXCEPT ![c] = @ \o LogOf(es)]
    /\ lastEmit' = IF es = <<>> THEN NoEmit ELSE es[Len(es)]
    /\ UNCHANGED <<_type, domain, auth, suspended, slots, entry, returned,
                   vq>>

\* Leaving a session that is a plain local, not the subject of `async with`.
LeaveSessionUnmanaged(s) == s

\* Leaving `async with ClientSession() as session`: __aexit__ closes it.
LeaveSession(s) == IF s = "open" THEN "closed" ELSE s

\* Finish sending the request once more when the status was unacceptable.
FinishRetryingOnce(c, es, n, out) ==
    IF out.kind = "raise" /\ out.exc = "RequestError" /\ Len(n.requests) < 2
    THEN Commit(c, es, [n EXCEPT !.pc = "request", !.session = "open"])
    ELSE Commit(c, es, [n EXCEPT !.pc = "done", !.outcome = out,
                                 !.session = LeaveSession(n.session)])

\* _make returns or raises out from state n: the session block is left.
Finish(c, es, n, out) ==
    Commit(c, es, [n EXCEPT !.pc = "done", !.outcome = out,
                            !.session = LeaveSession(n.session)])

Raised(es) == es # <<>> /\ es[Len(es)].raised

\* time(): the wall clock never runs backwards between two reads.
TimeAfter(t) == t..MaxTime

\* Follows with the session opened before the query options are validated.
FollowsSessionFirst(p) ==
    CASE p = "entry" -> "body"
      [] p = "body" -> "session"
      [] p = "session" -> "query"
      [] p = "query" -> "request"
      [] p = "request" -> "await"
      [] p = "await" -> "close"
      [] p = "close" -> "classify"

\* The order of _make's steps, lines 62-116: the position after position p.
Follows(p) ==
    CASE p = "entry" -> "body"
      [] p = "body" -> "query"
      [] p = "query" -> "session"
      [] p = "session" -> "request"
      [] p = "request" -> "await"
      [] p = "await" -> "close"
      [] p = "close" -> "classify"

\* StatusClass without the upper end of the client-error range.
StatusClassNoUpperEnd(status) ==
    IF status = 204 THEN "no_content"
    ELSE IF status \in {200, 201} THEN "data"
    ELSE IF 400 <= status THEN "client_error"
    ELSE "unacceptable"

\* StatusClass taking 200 alone as a success with a payload.
StatusClassOnly200(status) ==
    IF status = 204 THEN "no_content"
    ELSE IF status = 200 THEN "data"
    ELSE IF 400 <= status /\ status < 500 THEN "client_error"
    ELSE "unacceptable"

\* StatusClass taking 204 as one more success with a payload.
StatusClass204AsData(status) ==
    IF status \in {200, 201, 204} THEN "data"
    ELSE IF 400 <= status /\ status < 500 THEN "client_error"
    ELSE "unacceptable"

\* Lines 98-116: the class of a response status.
StatusClass(status) ==
    IF status = 204 THEN "no_content"
    ELSE IF status \in {200, 201} THEN "data"
    ELSE IF 400 <= status /\ status < 500 THEN "client_error"
    ELSE "unacceptable"

\* Lines 62-64: the entry of _make and its method check.
_make(c, path, method, params) ==
    /\ pc[c] \in {"idle", "done"}
    /\ pc' = [pc EXCEPT ![c] =
                 IF method \notin Methods THEN "done" ELSE Follows("entry")]
    /\ outcome' = [outcome EXCEPT ![c] =
                 IF method \notin Methods
                 THEN Raise("ValueError",
                            <<"invalid http method '" \o method \o "'">>)
                 ELSE Pending]
    /\ call' = [call EXCEPT ![c] =
                 [method |-> method, path |-> path, params |-> params,
                  body |-> NoBody, url |-> "", start |-> 0, status |-> 0,
                  content |-> Undecodable, data |-> NoneVal,
                  entryPing |-> ping]]
    /\ session' = [session EXCEPT ![c] = "none"]
    /\ opened' = [opened EXCEPT ![c] = 0]
    /\ requests' = [requests EXCEPT ![c] = <<>>]
    /\ log' = [log EXCEPT ![c] = <<>>]
    /\ lastEmit' = NoEmit
    /\ UNCHANGED <<_type, domain, auth, suspended, ping, slots, now,
                   returned, vq>>

Entered(c, name) == entry' = [entry EXCEPT ![c] = name]

rget(c) ==
    /\ \E path \in Paths, data \in QueryInputs : _make(c, path, "GET", data)
    /\ Entered(c, "rget")

rpost(c) ==
    /\ \E path \in Paths, data \in BodyInputs : _make(c, path, "POST", data)
    /\ Entered(c, "rpost")

rpatch(c) ==
    /\ \E path \in Paths, data \in PatchInputs : _make(c, path, "PATCH", data)
    /\ Entered(c, "rpatch")

rput(c) ==
    /\ \E path \in Paths, data \in PutInputs : _make(c, path, "PUT", data)
    /\ Entered(c, "rput")

rdelete(c) ==
    /\ \E path \in Paths : _make(c, path, "DELETE", EmptyParams)
    /\ Entered(c, "rdelete")

\* _make called directly, with a method string of the caller's choice.
CallMake(c) ==
    /\ \E path \in Paths, method \in MethodInputs :
          _make(c, path, method, EmptyParams)
    /\ Entered(c, "_make")

\* Lines 66-78: body selection.
SelectBody(c) ==
    /\ pc[c] = "body"
    /\ LET p == call[c].params
           copy == Without(p, QueryKeys)
           es == IF TruthyStr(p, "raw")
                 THEN <<__debug("sending raw byte payload")>>
                 ELSE IF DOMAIN copy # {}
                 THEN <<__debug("sending json payload")>>
                 ELSE <<>>
           body == IF TruthyStr(p, "raw")
                   THEN [kind |-> "raw", val |-> p["raw"]]
                   ELSE IF DOMAIN copy # {}
                   THEN [kind |-> "json", val |-> Dumps(copy)]
                   ELSE NoBody
       IN IF Raised(es)
          THEN Finish(c, es, Same(c), CallbackFailure)
          ELSE Commit(c, es, [Same(c) EXCEPT !.pc = Follows("body"),
                                             !.call.body = body])

\* Lines 80-81: query validation and the URL.
BuildUrl(c) ==
    /\ pc[c] = "query"
    /\ LET q == _validate_query(call[c].params)
       IN IF q.kind = "raise"
          THEN Finish(c, <<>>, Same(c), q)
          ELSE IF _type = None
          THEN Finish(c, <<>>, Same(c),
                      Raise("AttributeError",
                            <<"'NoneType' object has no attribute 'lower'">>))
          ELSE Commit(c, <<>>,
                      [Same(c) EXCEPT !.pc = Follows("query"),
                                      !.call.url = domain \o "/api/"
                                          \o Lower(_type) \o call[c].path
                                          \o q.value])

\* Lines 83-84: the session is created and entered.
StartSession(c) ==
    /\ pc[c] = "session"
    /\ LET es == <<__debug("attempting to start session")>>
       IN IF Raised(es)
          THEN Finish(c, es, Same(c), CallbackFailure)
          ELSE Commit(c, es, [Same(c) EXCEPT !.pc = Follows("session"),
                                             !.session = "open",
                                             !.opened = @ + 1])

\* Lines 85-91: the request is issued on the call's own session.
SendRequest(c) ==
    /\ pc[c] = "request"
    /\ \E t \in TimeAfter(now) :
       LET es == <<__debug("attemping to perform request to " \o call[c].url)>>
           h == get_headers
           n == [Same(c) EXCEPT !.now = t, !.call.start = t]
           req == [method |-> Lower(call[c].method), url |-> call[c].url,
                   data |-> call[c].body, headers |-> h.value,
                   session |-> c, sessionState |-> session[c]]
       IN IF Raised(es)
          THEN Finish(c, es, Same(c), CallbackFailure)
          ELSE IF h.kind = "raise"
          THEN Finish(c, es, n, h)
          ELSE Commit(c, es, [n EXCEPT !.pc = Follows("request"),
                                       !.requests = Append(@, req)])

\* ping written only when the status is one the call returns on.
PingAfterSuccessOnly(status, old, elapsed) ==
    IF status \in {200, 201, 204} THEN elapsed ELSE old

\* Line 92: `self.ping = time() - start`, before the status is looked at.
PingAfter(status, old, elapsed) == elapsed

\* Line 92: the response's status line and headers arrive, the server
\* answering with one of the responses rs.
Respond(c, rs) ==
    /\ pc[c] = "await"
    /\ \E response \in rs, t \in TimeAfter(now) :
          Commit(c, <<>>, [Same(c) EXCEPT !.pc = Follows("await"),
                                          !.call.status = response.status,
                                          !.call.content = response.content,
                                          !.now = t,
                                          !.ping = PingAfter(response.status,
                                                      ping,
                                                      t - call[c].start)])

ReceiveResponse(c) == Respond(c, Responses)

\* Line 88: the request fails in the transport (aiohttp.ClientError).
RequestFails(c) ==
    /\ pc[c] = "await"
    /\ Finish(c, <<>>, Same(c), Raise("ClientError", <<>>))

\* Lines 94-95: the explicit session.close().
CloseSession(c) ==
    /\ pc[c] = "close"
    /\ LET es == <<__debug("ensuring session close before continuing")>>
       IN IF Raised(es)
          THEN Finish(c, es, Same(c), CallbackFailure)
          ELSE Commit(c, es, [Same(c) EXCEPT !.pc = Follows("close"),
                                             !.session = "closed"])

RequestErrorMessage(status) ==
    "pterodactyl api returned an invalid or unacceptable response (status: "
        \o ToString(status) \o ")"

\* Lines 96-116: the status is classified.
Classify(c) ==
    /\ pc[c] = "classify"
    /\ LET status == call[c].status
           es == <<__debug("received status: " \o ToString(status))>>
       IN IF Raised(es)
          THEN Finish(c, es, Same(c), CallbackFailure)
          ELSE IF StatusClass(status) = "no_content"
          THEN Finish(c, es, Same(c), Return(NoneVal))
          ELSE IF StatusClass(status) = "data"
          THEN Commit(c, es, [Same(c) EXCEPT !.pc = "json_data"])
          ELSE IF StatusClass(status) = "client_error"
          THEN Commit(c, es, [Same(c) EXCEPT !.pc = "json_error"])
          ELSE Finish(c, es, Same(c),
                      Raise("RequestError", <<RequestErrorMessage(status)>>))

JsonError == Raise("JSONDecodeError", <<>>)

\* Lines 102-108: the payload is decoded, emitted and returned.
DecodeData(c) ==
    /\ pc[c] = "json_data"
    /\ IF call[c].content = Undecodable
       THEN Finish(c, <<>>, Same(c), JsonError)
       ELSE LET data == call[c].content
                es == <<EmitReceive(data)>>
                n == [Same(c) EXCEPT !.call.data = data]
            IN IF Raised(es)
               THEN Finish(c, es, n, CallbackFailure)
               ELSE Finish(c, es, n, Return(data))

\* ErrorOf reading the last error of the list, err['errors'][-1]['code'].
ErrorOfLast(err) ==
    IF ~Has(err, "errors") THEN Raise("KeyError", <<"errors">>)
    ELSE IF Len(err["errors"]) = 0
    THEN Raise("IndexError", <<"list index out of range">>)
    ELSE IF ~Has(err["errors"][Len(err["errors"])], "code")
    THEN Raise("KeyError", <<"code">>)
    ELSE Raise("PteroAPIError",
               <<err["errors"][Len(err["errors"])]["code"], err>>)

\* err['errors'][0]['code'] on the decoded body.
ErrorOf(err) ==
    IF ~Has(err, "errors") THEN Raise("KeyError", <<"errors">>)
    ELSE IF Len(err["errors"]) = 0
    THEN Raise("IndexError", <<"list index out of range">>)
    ELSE IF ~Has(err["errors"][1], "code") THEN Raise("KeyError", <<"code">>)
    ELSE Raise("PteroAPIError", <<err["errors"][1]["code"], err>>)

\* Lines 110-112: the error body is decoded and raised.
DecodeError(c) ==
    /\ pc[c] = "json_error"
    /\ IF call[c].content = Undecodable
       THEN Finish(c, <<>>, Same(c), JsonError)
       ELSE LET err == call[c].content
            IN Finish(c, <<>>, [Same(c) EXCEPT !.call.data = err],
                      ErrorOf(err))

(***************************************************************************)
(* The dispatcher after __init__, lines 10-16, and its behaviours.         *)
(***************************************************************************)
TypeInputs == {"Application", None}
AuthInputs == {"ptlc_key", None}

NoCall ==
    [method |-> "", path |-> "", params |-> EmptyParams, body |-> NoBody,
     url |-> "", start |-> 0, status |-> 0, content |-> Undecodable,
     data |-> NoneVal, entryPing |-> -1]
NoQuery == [in |-> EmptyParams, out |-> Pending]

Init ==
    /\ _type \in TypeInputs
    /\ domain = "https://panel.example"
    /\ auth \in AuthInputs
    /\ suspended = FALSE
    /\ ping = -1
    /\ slots = [e \in Events |-> <<>>]
    /\ now = 0
    /\ pc = [c \in Tasks |-> "idle"]
    /\ call = [c \in Tasks |-> NoCall]
    /\ session = [c \in Tasks |-> "none"]
    /\ opened = [c \in Tasks |-> 0]
    /\ requests = [c \in Tasks |-> <<>>]
    /\ log = [c \in Tasks |-> <<>>]
    /\ outcome = [c \in Tasks |-> Pending]
    /\ entry = [c \in Tasks |-> ""]
    /\ lastEmit = NoEmit
    /\ returned = [e \in Events |-> <<>>]
    /\ vq = NoQuery

Next ==
    \/ \E c \in MainTasks : rget(c)
    \/ \E c \in MainTasks : rpost(c)
    \/ \E c \in MainTasks : rpatch(c)
    \/ \E c \in MainTasks : rput(c)
    \/ \E c \in MainTasks : rdelete(c)
    \/ \E c \in MainTasks : CallMake(c)
    \/ \E c \in MainTasks : SelectBody(c)
    \/ \E c \in MainTasks : BuildUrl(c)
    \/ \E c \in MainTasks : StartSession(c)
    \/ \E c \in MainTasks : SendRequest(c)
    \/ \E c \in MainTasks : ReceiveResponse(c)
    \/ \E c \in MainTasks : RequestFails(c)
    \/ \E c \in MainTasks : CloseSession(c)
    \/ \E c \in MainTasks : Classify(c)
    \/ \E c \in MainTasks : DecodeData(c)
    \/ \E c \in MainTasks : DecodeError(c)
    \/ \E func \in Callbacks : on_receive(func)
    \/ \E func \in Callbacks : on_debug(func)

Spec == Init /\ [][Next]_vars

(***************************************************************************)
(* _validate_query on its own: the options are drawn at the start and one  *)
(* call of the function is the only step.                                  *)
(***************************************************************************)
QueryMargin == 2    \* integers tried beyond each end of the documented range

PageInputs == (0 - QueryMargin)..(PageMax + QueryMargin)
PerPageInputs == (0 - QueryMargin)..(PerPageMax + QueryMargin)
FilterInputs == { <<"name", "srv">> }
IncludeInputs == { <<"", "a", "", "b">>, <<"", "">> }
SortInputs == { "-name" }

\* The options dict holding the keys ks with the values given.
Options(ks, pg, pp, f, i, s) ==
    [k \in ks |-> CASE k = "page" -> pg
                    [] k = "per_page" -> pp
                    [] k = "filter" -> f
                    [] k = "include" -> i
                    [] k = "sort" -> s]

OptionInputs ==
    { Options(ks, pg, pp, f, i, s) :
        ks \in SUBSET QueryKeys, pg \in PageInputs, pp \in PerPageInputs,
        f \in FilterInputs, i \in IncludeInputs, s \in SortInputs }

ValidateQuery ==
    /\ vq.out = Pending
    /\ vq' = [vq EXCEPT !.out = _validate_query(vq.in)]
    /\ UNCHANGED <<_type, domain, auth, suspended, ping, slots, now, pc, call,
                   session, opened, requests, log, outcome, entry, lastEmit,
                   returned>>

InitQuery ==
    /\ _type = "Application"
    /\ domain = "https://panel.example"
    /\ auth = "ptlc_key"
    /\ suspended = FALSE
    /\ ping = -1
    /\ slots = [e \in Events |-> <<>>]
    /\ now = 0
    /\ pc = [c \in Tasks |-> "idle"]
    /\ call = [c \in Tasks |-> NoCall]
    /\ session = [c \in Tasks |-> "none"]
    /\ opened = [c \in Tasks |-> 0]
    /\ requests = [c \in Tasks |-> <<>>]
    /\ log = [c \in Tasks |-> <<>>]
    /\ outcome = [c \in Tasks |-> Pending]
    /\ entry = [c \in Tasks |-> ""]
    /\ lastEmit = NoEmit
    /\ returned = [e \in Events |-> <<>>]
    /\ vq \in [in : OptionInputs, out : {Pending}]

NextQuery == ValidateQuery

SpecQuery == InitQuery /\ [][NextQuery]_vars

(***************************************************************************)
(* Calls in flight together: each task awaits one verb call, and the steps *)
(* of the calls interleave at their awaits.  The dispatcher is the one     *)
(* left by construction, on_receive(cb_ok) and on_debug(cb_throws).        *)
(***************************************************************************)
\* asyncio.create_task(manager.rget(...)) / rdelete(...) by a task not yet
\* started.
SpawnGet(c) == pc[c] = "idle" /\ rget(c)
SpawnDelete(c) == pc[c] = "idle" /\ rdelete(c)

\* The server answers with one response of each class.
ConcResponses ==
    { Response(200, DataBody), Response(204, Undecodable),
      Response(404, NotFoundBody), Response(503, NotFoundBody) }

ReceiveResponseConc(c) == Respond(c, ConcResponses)

\* One step of the call of task c, from one await to the next.
TaskStep(c) ==
    \/ SelectBody(c)
    \/ BuildUrl(c)
    \/ StartSession(c)
    \/ SendRequest(c)
    \/ ReceiveResponseConc(c)
    \/ RequestFails(c)
    \/ CloseSession(c)
    \/ Classify(c)
    \/ DecodeData(c)
    \/ DecodeError(c)

InitConc ==
    /\ _type = "Application"
    /\ domain = "https://panel.example"
    /\ auth = "ptlc_key"
    /\ suspended = FALSE
    /\ ping = -1
    /\ slots = [e \in Events |->
                   IF e = "receive" THEN <<"cb_ok">> ELSE <<"cb_throws">>]
    /\ now = 0
    /\ pc = [c \in Tasks |-> "idle"]
    /\ call = [c \in Tasks |-> NoCall]
    /\ session = [c \in Tasks |-> "none"]
    /\ opened = [c \in Tasks |-> 0]
    /\ requests = [c \in Tasks |-> <<>>]
    /\ log = [c \in Tasks |-> <<>>]
    /\ outcome = [c \in Tasks |-> Pending]
    /\ entry = [c \in Tasks |-> ""]
    /\ lastEmit = NoEmit
    /\ returned = slots
    /\ vq = NoQuery

NextConc ==
    \/ \E c \in Tasks : SpawnGet(c)
    \/ \E c \in Tasks : SpawnDelete(c)
    \/ \E c \in Tasks : SelectBody(c)
    \/ \E c \in Tasks : BuildUrl(c)
    \/ \E c \in Tasks : StartSession(c)
    \/ \E c \in Tasks : SendRequest(c)
    \/ \E c \in Tasks : ReceiveResponseConc(c)
    \/ \E c \in Tasks : RequestFails(c)
    \/ \E c \in Tasks : CloseSession(c)
    \/ \E c \in Tasks : Classify(c)
    \/ \E c \in Tasks : DecodeData(c)
    \/ \E c \in Tasks : DecodeError(c)

SpecConc == InitConc /\ [][NextConc]_vars

(***************************************************************************)
(* Properties.                                                             *)
(***************************************************************************)
Done(c) == pc[c] = "done"
Responded(c) == call[c].status # 0
JsonContent(c) == call[c].content # Undecodable
Receives(c) == SelectSeq(log[c], LAMBDA e : e.ev = "receive")
Debugs(c) == SelectSeq(log[c], LAMBDA e : e.ev = "debug")
Raises(c, exc) == outcome[c].kind = "raise" /\ outcome[c].exc = exc

StatusMessage(status) ==
    "pterodactyl api returned an invalid or unacceptable response (status: "
        \o ToString(status) \o ")"

\* C1: a call whose response status is not 204, not 200/201 and not in
\* 400..499 raises RequestError carrying that status, returns no value and
\* emits no 'receive' event.
C1_OtherStatusRaisesRequestError ==
    \A c \in Tasks :
        ( /\ Done(c)
          /\ Responded(c)
          /\ call[c].status \notin {200, 201, 204}
          /\ call[c].status \notin 400..499 )
        => /\ Raises(c, "RequestError")
           /\ outcome[c].args = <<StatusMessage(call[c].status)>>
           /\ Receives(c) = <<>>

C1_Witness ==
    \E c \in Tasks :
        /\ Done(c)
        /\ call[c].status = 503
        /\ Raises(c, "RequestError")
        /\ outcome[c].args = <<StatusMessage(503)>>

\* The body has the shape {errors: [{code: c, ...}, ...]}.
ErrorShaped(d) ==
    /\ Has(d, "errors")
    /\ Len(d["errors"]) > 0
    /\ \A i \in 1..Len(d["errors"]) : Has(d["errors"][i], "code")

\* C2: a call whose response status is in 400..499 and whose JSON body is
\* error-shaped raises PteroAPIError(errors[0].code, body) and emits no
\* 'receive' event.
C2_ClientErrorRaisesPteroAPIError ==
    \A c \in Tasks :
        ( /\ Done(c)
          /\ call[c].status \in 400..499
          /\ ErrorShaped(call[c].content) )
        => /\ Raises(c, "PteroAPIError")
           /\ outcome[c].args =
                  <<call[c].content["errors"][1]["code"], call[c].content>>
           /\ Receives(c) = <<>>

C2_Witness ==
    \E c \in Tasks :
        /\ Done(c)
        /\ call[c].status = 404
        /\ outcome[c] =
               Raise("PteroAPIError",
                     <<"NotFound",
                       [t |-> "obj", errors |-> <<[code |-> "NotFound"]>>]>>)

\* C3: a call whose response is 200 or 201 with JSON payload d emits
\* exactly one 'receive' event, with payload d, after every 'debug' event of
\* the call, and returns d.
C3_SuccessEmitsOnceThenReturns ==
    \A c \in Tasks :
        ( /\ Done(c)
          /\ call[c].status \in {200, 201}
          /\ JsonContent(c) )
        => /\ outcome[c] = Return(call[c].content)
           /\ Receives(c) = <<[ev |-> "receive", payload |-> call[c].content]>>
           /\ log[c][Len(log[c])].ev = "receive"

C3_Witness ==
    \E c \in Tasks :
        /\ Done(c)
        /\ call[c].status = 201
        /\ outcome[c] = Return([t |-> "obj", id |-> 1])
        /\ Len(Debugs(c)) >= 4
        /\ Len(Receives(c)) = 1

\* C4: a call whose response is 204 returns None, emits no 'receive' event
\* and emits nothing after the 'received status' debug event.
C4_NoContentReturnsNone ==
    \A c \in Tasks :
        (Done(c) /\ call[c].status = 204)
        => /\ outcome[c] = Return(NoneVal)
           /\ Receives(c) = <<>>
           /\ log[c][Len(log[c])] =
                  [ev |-> "debug", payload |-> "[debug] received status: 204"]

C4_Witness ==
    \E c \in Tasks :
        /\ Done(c)
        /\ call[c].status = 204
        /\ outcome[c] = Return(NoneVal)
        /\ Len(log[c]) >= 4

\* C5 (as claimed): a supplied page is accepted exactly when 1 <= page <= 50
\* and a supplied per_page exactly when 1 <= per_page <= 100; accepted values
\* appear as 'page=<n>' / 'per_page=<n>', every other supplied value raises
\* ValidationError.
C5_RangeChecked ==
    vq.out # Pending =>
        LET q == vq.in
            pageOk == Has(q, "page") => q["page"] \in 1..50
            perPageOk == Has(q, "per_page") => q["per_page"] \in 1..100
            clause(t) == \E i \in 1..Len(vq.out.res) : vq.out.res[i] = t
        IN IF pageOk /\ perPageOk
           THEN /\ vq.out.kind = "return"
                /\ Has(q, "page") => clause("page=" \o ToString(q["page"]))
                /\ Has(q, "per_page") =>
                       clause("per_page=" \o ToString(q["per_page"]))
           ELSE /\ vq.out.kind = "raise"
                /\ vq.out.exc = "ValidationError"

HttpVerbs == {"GET", "POST", "PATCH", "PUT", "DELETE"}
PublicVerbs == {"rget", "rpost", "rpatch", "rput", "rdelete"}

\* The options hold a page outside 1..50 or a per_page outside 1..100.
OutOfRange(params) ==
    \/ Has(params, "page") /\ params["page"] \notin 1..50
    \/ Has(params, "per_page") /\ params["per_page"] \notin 1..100

\* C6 (as claimed): on a dispatcher with its API family and credential set,
\* a verb call whose query options are out of range ends in ValidationError
\* before any session is opened and before any request is
\* issued; ping keeps the value it had when the call began and no 'receive'
\* event is emitted.
C6_OutOfRangeFailsBeforeIO ==
    \A c \in Tasks :
        ( /\ _type # None
          /\ auth # None
          /\ Done(c)
          /\ entry[c] \in PublicVerbs
          /\ OutOfRange(call[c].params) )
        => /\ Raises(c, "ValidationError")
           /\ opened[c] = 0
           /\ session[c] = "none"
           /\ requests[c] = <<>>
           /\ ping = call[c].entryPing
           /\ Receives(c) = <<>>

\* Whenever ValidationError is what a call raises, no session was opened and
\* no request issued by it, ping is the one of its entry and nothing was
\* received; options above the range always end so.
ValidationErrorPrecedesIO ==
    \A c \in Tasks :
        /\ ( /\ Done(c)
             /\ call[c].method \in HttpVerbs
             /\ \/ Has(call[c].params, "page") /\ call[c].params["page"] > 50
                \/ /\ Has(call[c].params, "per_page")
                   /\ call[c].params["per_page"] > 100 )
           => Raises(c, "ValidationError")
        /\ (Done(c) /\ Raises(c, "ValidationError"))
           => /\ opened[c] = 0
              /\ session[c] = "none"
              /\ requests[c] = <<>>
              /\ ping = call[c].entryPing
              /\ Receives(c) = <<>>

\* C7: _make with a method outside GET, POST, PATCH, PUT, DELETE raises
\* ValueError before any session is opened, any request is issued or any
\* event is emitted; a call made through rget, rpost, rpatch, rput or rdelete
\* always carries a method of that set and never raises it.
C7_InvalidMethodRejectedFirst ==
    \A c \in Tasks :
        /\ (pc[c] # "idle" /\ call[c].method \notin HttpVerbs)
           => /\ Done(c)
              /\ outcome[c] =
                     Raise("ValueError",
                           <<"invalid http method '" \o call[c].method \o "'">>)
              /\ log[c] = <<>>
              /\ opened[c] = 0
              /\ session[c] = "none"
              /\ requests[c] = <<>>
        /\ entry[c] \in PublicVerbs
           => /\ call[c].method \in HttpVerbs
              /\ ~Raises(c, "ValueError")

C7_Witness ==
    \E c \in Tasks :
        /\ Done(c)
        /\ entry[c] = "_make"
        /\ call[c].method = "HEAD"
        /\ Raises(c, "ValueError")
        /\ call[c].entryPing >= 0

\* C8: a call opens at most one session, issues its request only on the
\* session it opened itself, while that session is open, and no session of
\* the call is still open once the call has returned or raised.
C8_OneSessionAlwaysClosed ==
    \A c \in Tasks :
        /\ opened[c] <= 1
        /\ session[c] # "none" => opened[c] = 1
        /\ Done(c) => session[c] # "open"
        /\ Len(requests[c]) <= opened[c]
        /\ \A i \in 1..Len(requests[c]) :
               /\ requests[c][i].session = c
               /\ requests[c][i].sessionState = "open"

C8_Witness ==
    \E c \in Tasks :
        /\ Done(c)
        /\ Raises(c, "TypeError")
        /\ opened[c] = 1
        /\ session[c] = "closed"

\* The outcome of a call as its inputs and its response alone determine it.
OutcomeWithoutSubscribers(c) ==
    LET k == call[c]
        q == _validate_query(k.params)
    IN IF k.method \notin HttpVerbs
       THEN Raise("ValueError", <<"invalid http method '" \o k.method \o "'">>)
       ELSE IF q.kind = "raise" THEN q
       ELSE IF _type = None
       THEN Raise("AttributeError",
                  <<"'NoneType' object has no attribute 'lower'">>)
       ELSE IF get_headers.kind = "raise" THEN get_headers
       ELSE IF ~Responded(c) THEN Raise("ClientError", <<>>)
       ELSE IF k.status = 204 THEN Return(NoneVal)
       ELSE IF k.status \in {200, 201}
       THEN IF k.content = Undecodable THEN JsonError ELSE Return(k.content)
       ELSE IF k.status \in 400..499
       THEN IF k.content = Undecodable THEN JsonError ELSE ErrorOf(k.content)
       ELSE Raise("RequestError", <<StatusMessage(k.status)>>)

\* C9: a subscriber callback that throws during a 'receive' or 'debug'
\* emission never changes what the call returns or raises: the outcome is
\* the one the inputs and the response determine, whatever is subscribed.
C9_SubscriberFailureNeverPropagates ==
    \A c \in Tasks : Done(c) => outcome[c] = OutcomeWithoutSubscribers(c)

C9_Witness ==
    \E c \in Tasks :
        /\ Done(c)
        /\ lastEmit.ev = "receive"
        /\ AnyThrew(lastEmit)
        /\ call[c].status \in {200, 201}
        /\ outcome[c] = Return(call[c].content)

\* C10: in every emission, each callback registered after one that throws is
\* still invoked, with the payload of that emission.
C10_LaterCallbacksStillInvoked ==
    lastEmit.ev # "" =>
        LET subs == slots[lastEmit.ev]
        IN \A i \in 1..Len(subs) :
               Throws(subs[i]) =>
                   \A j \in (i + 1)..Len(subs) :
                       /\ j <= Len(lastEmit.invoked)
                       /\ lastEmit.invoked[j].cb = subs[j]
                       /\ lastEmit.invoked[j].arg = lastEmit.payload

C10_Witness ==
    /\ lastEmit.ev = "receive"
    /\ Len(lastEmit.invoked) = 2
    /\ lastEmit.invoked[1].threw
    /\ lastEmit.invoked[2].cb = "cb_ok"
    /\ lastEmit.invoked[2].arg = lastEmit.payload

\* C11: ping is -1 at construction and stays so until a response is received
\* (no other step writes it); once a call has received its response, whatever
\* the status and whether the call then returns or raises, ping is a
\* non-negative number.
C11_PingSentinelThenNonNegative ==
    /\ ping = -1
    /\ [][ping' # ping =>
             \E c \in Tasks : pc[c] = "await" /\ Responded(c)']_vars
    /\ [](\A c \in Tasks : Responded(c) => ping >= 0)

C11_Witness ==
    \E c \in Tasks :
        /\ Done(c)
        /\ call[c].status = 503
        /\ Raises(c, "RequestError")
        /\ call[c].entryPing = -1
        /\ ping = 1

\* The headers get_headers builds from the fields as they are now.
HeadersNow ==
    [UserAgent |-> _type \o " Pytero v0.1.0",
     ContentType |-> "application/json",
     Accept |-> "application/json",
     Authorization |-> "Bearer " \o auth]

\* C12 (as claimed): a verb call with acceptable query options on a
\* dispatcher whose _type or auth is unset ends with the TypeError of
\* get_headers and issues no request; when both are set, get_headers returns
\* exactly the four headers built from the current fields, and these are the
\* headers of the request issued.
C12_UnsetConfigRaisesConfigError ==
    /\ \A c \in Tasks :
           ( /\ Done(c)
             /\ entry[c] \in PublicVerbs
             /\ _validate_query(call[c].params).kind = "return"
             /\ (_type = None \/ auth = None) )
           => /\ outcome[c] = get_headers
              /\ Raises(c, "TypeError")
              /\ requests[c] = <<>>
    /\ (_type # None /\ auth # None)
           => /\ get_headers = Return(HeadersNow)
              /\ \A c \in Tasks : \A i \in 1..Len(requests[c]) :
                     requests[c][i].headers = HeadersNow

\* With only the credential unset the TypeError of get_headers is what the
\* call raises, once its session is open and before any request is issued.
MissingAuthRaisesTypeError ==
    \A c \in Tasks :
        ( /\ Done(c)
          /\ entry[c] \in PublicVerbs
          /\ _validate_query(call[c].params).kind = "return"
          /\ _type # None
          /\ auth = None )
        => /\ outcome[c] =
                  Raise("TypeError", <<"missing authorization for requests">>)
           /\ requests[c] = <<>>
           /\ opened[c] = 1

\* The place of an option in the fixed order of the clauses.
Rank(k) ==
    CASE k = "page" -> 1
      [] k = "per_page" -> 2
      [] k = "filter" -> 3
      [] k = "include" -> 4
      [] k = "sort" -> 5

NonEmptyEntries(s) == SelectSeq(s, LAMBDA e : e # "")

\* The clause the option k of q stands for.
ClauseText(q, k) ==
    CASE k = "page" -> "page=" \o ToString(q[k])
      [] k = "per_page" -> "per_page=" \o ToString(q[k])
      [] k = "filter" -> "filter[" \o q[k][1] \o "]=" \o q[k][2]
      [] k = "include" -> "include=" \o Join(",", NonEmptyEntries(q[k]))
      [] k = "sort" -> "sort=" \o q[k]

\* C13: when _validate_query returns, every clause it produced is the clause
\* of one supplied option and the clauses stand in the order page, per_page,
\* filter, include, sort; the include clause lists the non-empty entries only
\* and is absent when none remain; filter and sort are present when supplied;
\* the result is '' without clauses and otherwise '?' followed by the clauses
\* joined with '&'.
C13_ClausesInFixedOrder ==
    (vq.out # Pending /\ vq.out.kind = "return") =>
        LET q == vq.in
            res == vq.out.res
            KeysOf(cl) == {k \in DOMAIN q : cl = ClauseText(q, k)}
            Produced(k) == \E i \in 1..Len(res) : res[i] = ClauseText(q, k)
        IN /\ \A i \in 1..Len(res) : KeysOf(res[i]) # {}
           /\ \A i, j \in 1..Len(res) :
                  i < j => \E ki \in KeysOf(res[i]), kj \in KeysOf(res[j]) :
                               Rank(ki) < Rank(kj)
           /\ Has(q, "include") =>
                  (Produced("include") <=> NonEmptyEntries(q["include"]) # <<>>)
           /\ Has(q, "filter") => Produced("filter")
           /\ Has(q, "sort") => Produced("sort")
           /\ vq.out.value = IF res = <<>> THEN "" ELSE "?" \o Join("&", res)

C13_Witness ==
    /\ DOMAIN vq.in = QueryKeys
    /\ vq.in["include"] = <<"", "a", "", "b">>
    /\ vq.out # Pending
    /\ vq.out.kind = "return"
    /\ vq.out.value
           = "?page=2&per_page=100&filter[name]=srv&include=a,b&sort=-name"

IsPrefix(s, t) == Len(s) <= Len(t) /\ SubSeq(t, 1, Len(s)) = s

\* C14: on_receive / on_debug return the callback they were given and append
\* it to the slot of their own event, leaving the other slot alone, also when
\* the callback is registered already; no step ever removes or reorders a
\* registered callback; every emission invokes exactly the callbacks
\* registered for its event name, in registration order, with its payload.
C14_RegisteredCallbacksStay ==
    /\ [][ /\ \A e \in Events : IsPrefix(slots[e], slots'[e])
           /\ slots' # slots =>
                  \E e \in Events, func \in Callbacks :
                      /\ slots' = [slots EXCEPT ![e] = Append(@, func)]
                      /\ returned' = [returned EXCEPT ![e] = Append(@, func)]
         ]_vars
    /\ [](returned = slots)
    /\ [](lastEmit.ev # "" =>
              /\ Len(lastEmit.invoked) = Len(slots[lastEmit.ev])
              /\ \A i \in 1..Len(lastEmit.invoked) :
                     /\ lastEmit.invoked[i].cb = slots[lastEmit.ev][i]
                     /\ lastEmit.invoked[i].arg = lastEmit.payload)

C14_Witness ==
    /\ slots["receive"] = <<"cb_ok", "cb_ok">>
    /\ slots["debug"] = <<>>
    /\ returned["receive"] = <<"cb_ok", "cb_ok">>
    /\ lastEmit.ev = "receive"
    /\ Len(lastEmit.invoked) = 2
    /\ \A i \in 1..2 : lastEmit.invoked[i].cb = "cb_ok"
    /\ \E c \in Tasks : Done(c) /\ call[c].status = 200

\* The decoded body holds errors[0].code.
HasFirstCode(d) ==
    /\ Has(d, "errors")
    /\ Len(d["errors"]) > 0
    /\ Has(d["errors"][1], "code")

\* C15 (as claimed): a call whose response status is in 400..499 and whose
\* body cannot be decoded as JSON, or lacks errors[0].code, raises
\* RequestError carrying the status.
C15_BadErrorBodyRaisesRequestError ==
    \A c \in Tasks :
        ( /\ Done(c)
          /\ call[c].status \in 400..499
          /\ (~JsonContent(c) \/ ~HasFirstCode(call[c].content)) )
        => /\ Raises(c, "RequestError")
           /\ outcome[c].args = <<StatusMessage(call[c].status)>>

\* What such a call raises instead: the failure of response.json() or of the
\* lookup err['errors'][0]['code'], never RequestError or PteroAPIError.
BadErrorBodyRaisesLookupError ==
    \A c \in Tasks :
        ( /\ Done(c)
          /\ call[c].status \in 400..499
          /\ (~JsonContent(c) \/ ~HasFirstCode(call[c].content)) )
        => /\ outcome[c].kind = "raise"
           /\ outcome[c].exc \in {"JSONDecodeError", "KeyError", "IndexError"}
           /\ ~JsonContent(c) <=> Raises(c, "JSONDecodeError")

Dbg(message) == [ev |-> "debug", payload |-> "[debug] " \o message]

\* The debug event e of the log carries the message.
IsDbg(e, message) == e.ev = "debug" /\ e.payload = "[debug] " \o message

BodyMessages == {"sending raw byte payload", "sending json payload"}
StatusInputs == {r.status : r \in Responses}

\* The 'attempting to start session' event, then the request-URL event, are
\* in the log of a call that issued its request; a call about to issue it has
\* emitted the first of them and issued nothing.
SessionAndUrlDebugPrecedeRequest(c) ==
    /\ pc[c] = "request" =>
           /\ requests[c] = <<>>
           /\ IsDbg(log[c][Len(log[c])], "attempting to start session")
    /\ requests[c] # <<>> =>
           \E i, j \in 1..Len(log[c]) :
               /\ i < j
               /\ IsDbg(log[c][i], "attempting to start session")
               /\ IsDbg(log[c][j], "attemping to perform request to "
                                       \o requests[c][1].url)

\* A 'received status' event names the status of the response received, and
\* is in the log once the status has been classified.
StatusDebugAfterResponse(c) ==
    /\ \A s \in StatusInputs, i \in 1..Len(log[c]) :
           IsDbg(log[c][i], "received status: " \o ToString(s))
               => Responded(c) /\ call[c].status = s
    /\ (pc[c] \in {"json_data", "json_error"} \/ (Done(c) /\ Responded(c)))
           => \E i \in 1..Len(log[c]) :
                  IsDbg(log[c][i],
                        "received status: " \o ToString(call[c].status))
    /\ pc[c] = "classify" =>
           IsDbg(log[c][Len(log[c])],
                 "ensuring session close before continuing")

\* A 'receive' event is the last event of its call, which returns its payload.
ReceivePrecedesReturn(c) ==
    \A i \in 1..Len(log[c]) :
        log[c][i].ev = "receive"
            => /\ i = Len(log[c])
               /\ Done(c)
               /\ outcome[c] = Return(log[c][i].payload)

\* C16 (as claimed): the method check and the validation of the query
\* options complete before the first 'debug' event of the call; the
\* start-session and request-URL debug events precede the request; the
\* 'received status' debug event follows the response and precedes
\* classification; a 'receive' event precedes the return.
C16_ValidationBeforeFirstDebug ==
    \A c \in Tasks :
        /\ log[c] # <<>> =>
               /\ call[c].method \in HttpVerbs
               /\ pc[c] \notin {"body", "query"}
               /\ ~Raises(c, "ValidationError")
        /\ SessionAndUrlDebugPrecedeRequest(c)
        /\ StatusDebugAfterResponse(c)
        /\ ReceivePrecedesReturn(c)

\* C16 (amended): the method check completes before the first event of the
\* call; the validation of the query options completes before the
\* start-session debug event and everything after it, the only event that
\* may precede it being the one debug event of body selection, emitted when
\* the call has a body; the rest as claimed.
C16_StepsInOrder ==
    \A c \in Tasks :
        /\ log[c] # <<>> =>
               /\ call[c].method \in HttpVerbs
               /\ pc[c] # "body"
        /\ (pc[c] = "query" \/ Raises(c, "ValidationError")) =>
               /\ Len(log[c]) = IF call[c].body = NoBody THEN 0 ELSE 1
               /\ \A i \in 1..Len(log[c]) :
                      \E m \in BodyMessages : IsDbg(log[c][i], m)
        /\ SessionAndUrlDebugPrecedeRequest(c)
        /\ StatusDebugAfterResponse(c)
        /\ ReceivePrecedesReturn(c)

C16_Witness ==
    \E c \in Tasks :
        /\ Done(c)
        /\ entry[c] = "rpost"
        /\ call[c].status = 201
        /\ Len(requests[c]) = 1
        /\ Len(log[c]) = 6
        /\ log[c][1] = Dbg("sending json payload")
        /\ log[c][2] = Dbg("attempting to start session")
        /\ IsDbg(log[c][5], "received status: 201")
        /\ log[c][6].ev = "receive"
        /\ outcome[c] = Return(call[c].content)

\* What a step leaves alone of the task d.
LocalsUnchanged(d) ==
    /\ pc'[d] = pc[d]
    /\ call'[d] = call[d]
    /\ outcome'[d] = outcome[d]
    /\ session'[d] = session[d]
    /\ opened'[d] = opened[d]
    /\ requests'[d] = requests[d]
    /\ log'[d] = log[d]

\* C17: with the calls of two tasks interleaved at their awaits, every call
\* ends with the outcome its own inputs and its own response determine, its
\* request is its own and its 'receive' event carries its own payload; a call
\* in flight always has a step it can take, whatever the other call is doing;
\* a step of one call changes nothing of the other call and nothing of the
\* dispatcher but ping, which after a response holds the latency of the call
\* that received it and is otherwise left as it was.
C17_ConcurrentCallsIsolated ==
    /\ [](\A c \in Tasks :
              /\ Done(c) => outcome[c] = OutcomeWithoutSubscribers(c)
              /\ \A i \in 1..Len(log[c]) :
                     log[c][i].ev = "receive"
                         => log[c][i].payload = call[c].content
              /\ \A i \in 1..Len(requests[c]) :
                     /\ requests[c][i].method = Lower(call[c].method)
                     /\ requests[c][i].url = call[c].url
                     /\ requests[c][i].session = c
              /\ pc[c] \notin {"idle", "done"} => ENABLED TaskStep(c))
    /\ [][ /\ \A c, d \in Tasks :
                  (c # d /\ pc'[c] # pc[c]) => LocalsUnchanged(d)
           /\ UNCHANGED <<_type, domain, auth, suspended, slots>>
           /\ \A c \in Tasks :
                  (pc[c] = "await" /\ pc'[c] = "close")
                      => ping' = now' - call[c].start
           /\ (\A c \in Tasks : ~(pc[c] = "await" /\ pc'[c] = "close"))
                  => ping' = ping ]_vars

\* Both calls are past their response, the second response having arrived
\* while the first call was still in flight, and ping is the latency of the
\* second.
C17_Witness ==
    /\ Done("t1") /\ Done("t2")
    /\ call["t1"].status = 200 /\ outcome["t1"] = Return(DataBody)
    /\ call["t2"].status = 404 /\ Raises("t2", "PteroAPIError")
    /\ call["t1"].start = 0 /\ call["t2"].start = 1
    /\ call["t2"].entryPing = -1
    /\ ping = 0

\* The events of body selection in the log of the call.
BodyDebugs(c) ==
    SelectSeq(log[c], LAMBDA e : \E m \in BodyMessages : IsDbg(e, m))

\* Body selection has run: the call is past lines 66-78.
BodySelected(c) ==
    /\ call[c].method \in HttpVerbs
    /\ pc[c] \notin {"idle", "body"}

\* C18 (as claimed): once body selection has run, params holding a raw
\* override give exactly that value as the body and one 'sending raw byte
\* payload' debug event; otherwise the body is the JSON text of params
\* without page, per_page, filter, include and sort when keys remain, with
\* one 'sending json payload' debug event, and no body and no such event when
\* none remain, as always for rdelete; the request carries that body.
C18_BodySelection ==
    \A c \in Tasks :
        BodySelected(c) =>
            LET p == call[c].params
                copy == Without(p, QueryKeys)
            IN /\ IF Has(p, "raw")
                  THEN /\ call[c].body = [kind |-> "raw", val |-> p["raw"]]
                       /\ BodyDebugs(c) = <<Dbg("sending raw byte payload")>>
                  ELSE IF DOMAIN copy # {}
                  THEN /\ call[c].body = [kind |-> "json", val |-> Dumps(copy)]
                       /\ BodyDebugs(c) = <<Dbg("sending json payload")>>
                  ELSE /\ call[c].body = NoBody
                       /\ BodyDebugs(c) = <<>>
               /\ entry[c] = "rdelete" => call[c].body = NoBody
               /\ \A i \in 1..Len(requests[c]) :
                      requests[c][i].data = call[c].body

\* The same with the raw override taken only when it is non-empty, an empty
\* one being serialized with the other keys.
BodySelectionWithTruthyRaw ==
    \A c \in Tasks :
        BodySelected(c) =>
            LET p == call[c].params
                copy == Without(p, QueryKeys)
            IN /\ IF Has(p, "raw") /\ p["raw"] # ""
                  THEN /\ call[c].body = [kind |-> "raw", val |-> p["raw"]]
                       /\ BodyDebugs(c) = <<Dbg("sending raw byte payload")>>
                  ELSE IF DOMAIN copy # {}
                  THEN /\ call[c].body = [kind |-> "json", val |-> Dumps(copy)]
                       /\ BodyDebugs(c) = <<Dbg("sending json payload")>>
                  ELSE /\ call[c].body = NoBody
                       /\ BodyDebugs(c) = <<>>
               /\ entry[c] = "rdelete" => call[c].body = NoBody
               /\ \A i \in 1..Len(requests[c]) :
                      requests[c][i].data = call[c].body

\* The 'received status' events in the log of the call: one per response
\* classified.
StatusDebugs(c) ==
    SelectSeq(log[c],
              LAMBDA e : \E s \in StatusInputs :
                             IsDbg(e, "received status: " \o ToString(s)))

\* C19: a call issues at most one request and classifies at most one
\* response, a request is only ever issued by a call that has issued none,
\* and a call that has returned or raised takes no further step.
C19_NoRetry ==
    /\ [](\A c \in Tasks :
              /\ Len(requests[c]) <= 1
              /\ Len(StatusDebugs(c)) <= 1
              /\ Done(c) => ~ENABLED TaskStep(c))
    /\ [][\A c \in Tasks :
              Len(requests'[c]) > Len(requests[c])
                  => /\ requests[c] = <<>>
                     /\ outcome[c] = Pending]_vars

C19_Witness ==
    \E c \in Tasks :
        /\ Done(c)
        /\ call[c].status = 500
        /\ Raises(c, "RequestError")
        /\ Len(requests[c]) = 1
        /\ Len(StatusDebugs(c)) = 1
        /\ ~ENABLED TaskStep(c)

\* The step is one of the verb call of task c.
StepOfCall(c) == pc'[c] # pc[c] \/ call'[c] # call[c]

\* C20: no step changes _type, domain, auth or suspended; of the dispatcher's
\* fields a step of a verb call changes nothing but ping, leaving the event
\* slots alone, and only the step that receives the response changes ping;
\* the steps evaluating _validate_query (line 80) and get_headers (line 90)
\* change no field at all; the params of a call in progress stay as given.
C20_IdentityFieldsNeverChange ==
    /\ [](suspended = FALSE /\ domain = "https://panel.example")
    /\ [][ /\ UNCHANGED <<_type, domain, auth, suspended>>
           /\ \A c \in Tasks :
                  /\ StepOfCall(c) => slots' = slots
                  /\ (StepOfCall(c) /\ pc[c] # "await") => ping' = ping
                  /\ (StepOfCall(c) /\ pc[c] \in {"query", "request"}) =>
                         UNCHANGED <<_type, domain, auth, suspended, ping,
                                     slots>>
                  /\ pc[c] \notin {"idle", "done"} =>
                         call'[c].params = call[c].params ]_vars

C20_Witness ==
    \E c \in Tasks :
        /\ Done(c)
        /\ Raises(c, "PteroAPIError")
        /\ call[c].entryPing = -1
        /\ ping >= 0
        /\ call[c].params = [page |-> 2, sort |-> "-name"]
        /\ slots["receive"] # <<>>
        /\ suspended = FALSE
        /\ domain = "https://panel.example"
        /\ _type = "Application"
        /\ auth = "ptlc_key"

====
